---- MODULE Spec2Model ----
(***************************************************************************)
(* Model of sade.datasets.loaders.get_dataloaders and of the batch sizes   *)
(* set by sade.configs.flows.v2_flow_config.get_config.                    *)
(*                                                                         *)
(* Strings are sequences of one-character strings, so that str.lower,      *)
(* re.match and the `in` substring test are computed the way Python        *)
(* computes them.  Paths are sequences of components.                      *)
(***************************************************************************)
EXTENDS Integers, Sequences, FiniteSets, TLC

\* ------------------------------------------------------------------ bounds
\* longest file list the enumeration collaborator returns
MaxFiles == 2
\* most batches pulled from one loader
MaxPulls == 2

\* --------------------------------------------------------------- constants
\* config.training.batch_size, config.eval.batch_size (v2_flow_config)
TrainingBatchSize == 64
EvalBatchSize == 64
\* num_samples = int(1e100): the sampler yields at least 10^InfNumSamplesExp indices
InfNumSamplesExp == 100
\* Python's None
None == [none |-> TRUE]

\* ----------------------------------------------------------------- strings
UpperCase == <<"A","B","C","D","E","F","G","H","I","J","K","L","M",
               "N","O","P","Q","R","S","T","U","V","W","X","Y","Z">>
LowerCase == <<"a","b","c","d","e","f","g","h","i","j","k","l","m",
               "n","o","p","q","r","s","t","u","v","w","x","y","z">>

\* str.lower() on one character
LowerChar(c) ==
  IF \E i \in 1..Len(UpperCase) : UpperCase[i] = c
  THEN LowerCase[CHOOSE i \in 1..Len(UpperCase) : UpperCase[i] = c]
  ELSE c

\* str.lower()
Lower(s) == [i \in 1..Len(s) |-> LowerChar(s[i])]

\* `sub in s`
Contains(sub, s) ==
  \E i \in 0..(Len(s) - Len(sub)) : SubSeq(s, i + 1, i + Len(sub)) = sub

\* re.search(r"(a|b|...)", s): an alternative occurs anywhere in s
ReSearch(alts, s) == \E a \in alts : Contains(a, s)

\* re.match(r"(a|b|...)", s): an alternative matches at the start of s
ReMatch(alts, s) ==
  \E a \in alts : Len(a) <= Len(s) /\ SubSeq(s, 1, Len(a)) = a

s_abcd   == <<"a","b","c","d">>
s_ibis   == <<"i","b","i","s">>
s_tumor  == <<"t","u","m","o","r">>
s_lesion == <<"l","e","s","i","o","n">>
s_dssa   == <<"d","s","-","s","a">>
s_slicer_lesions == <<"s","l","i","c","e","r","_","l","e","s","i","o","n","s">>
s_dotdot == <<".",".">>

\* assert re.match(r"(abcd|ibis)", config.data.dataset.lower())
DatasetNameOK(cfg) == ReMatch({s_abcd, s_ibis}, Lower(cfg.data.dataset))

\* assert re.match(r"(tumor|lesion|ds-sa)", config.data.ood_ds.lower())
OodNameOK(cfg) == ReMatch({s_tumor, s_lesion, s_dssa}, Lower(cfg.data.ood_ds))

\* ------------------------------------------------------------------- paths
RECURSIVE NormFrom(_, _)
NormFrom(acc, rest) ==
  IF rest = <<>> THEN acc
  ELSE IF Head(rest) = s_dotdot
       THEN NormFrom(IF acc = <<>> THEN acc ELSE SubSeq(acc, 1, Len(acc) - 1),
                     Tail(rest))
       ELSE NormFrom(Append(acc, Head(rest)), Tail(rest))

\* os.path.abspath of an absolute path: ".." components resolved lexically
Abspath(p) == NormFrom(<<>>, p)

\* a mis-built directory: dataset and OOD name in the wrong order
OodDirPathSwapped(data_dir_path, ood_dataset_name, dataset_name) ==
  Abspath(Append(data_dir_path, s_dotdot))
    \o <<s_slicer_lesions, dataset_name, ood_dataset_name>>

\* dirname = f"slicer_lesions/{ood_dataset_name}/{dataset_name}"
\* ood_dir_path = f"{os.path.abspath(f'{data_dir_path}/..')}/{dirname}"
OodDirPath(data_dir_path, ood_dataset_name, dataset_name) ==
  Abspath(Append(data_dir_path, s_dotdot))
    \o <<s_slicer_lesions, ood_dataset_name, dataset_name>>

\* ------------------------------------------------------------- environment
\* the lesion directory is absent from the filesystem
Missing == [missing |-> TRUE]

\* a file list: an ordered sequence of file records
FileList(items) == [items |-> items]

\* the file records of one split, in a fixed non-ascending order
SplitFiles(split, k) == [i \in 1..k |-> [split |-> split, idx |-> k - i + 1]]

\* what the enumeration collaborator may return for one split
ListChoices(split) ==
  {None} \cup {FileList(SplitFiles(split, k)) : k \in 0..MaxFiles}

\* a directory laid out as <parent>/slicer_lesions/<a>/<b>
IsLesionLayout(p) == Len(p) >= 3 /\ p[Len(p) - 2] = s_slicer_lesions

\* os.path.exists(ood_dir_path)
PathExists(env, p) == env.lesionDir # Missing /\ IsLesionLayout(p)

\* get_image_files_list(dataset_name, dataset_dir, splits_dir): a deterministic
\* function of its arguments and of the files on disk; a lesion directory
\* holds test samples only
get_image_files_list(env, name, dir, splits) ==
  IF IsLesionLayout(dir)
  THEN <<FileList(<<>>), FileList(<<>>), env.lesionDir>>
  ELSE env.idFiles

\* the arguments of one call of the enumeration collaborator
EnumCall(name, dir, splits) == [name |-> name, dir |-> dir, splits |-> splits]

\* named transform pipelines
get_train_transform(cfg)  == "train_transform"
get_val_transform(cfg)    == "val_transform"
get_tumor_transform(cfg)  == "tumor_transform"
get_lesion_transform(cfg) == "lesion_transform"

\* -------------------------------------------------------- file-list resolution
\* mode test with the two flags in the wrong order
BranchEvaluationFirst(evaluation, ood_eval) ==
  IF evaluation THEN "eval" ELSE IF ood_eval THEN "ood" ELSE "train"

\* if ood_eval: ... elif evaluation: ... else: ...
Branch(evaluation, ood_eval) ==
  IF ood_eval THEN "ood" ELSE IF evaluation THEN "eval" ELSE "train"

\* OOD family test that takes every name beginning with "tumor" for a tumor set
OodFamilyPrefix(ood_dataset_name) ==
  IF Contains(s_lesion, ood_dataset_name) THEN "lesion"
  ELSE IF ReMatch({s_tumor}, ood_dataset_name) THEN "tumor"
  ELSE "image"

\* if "lesion" in ood_dataset_name: ... elif ood_dataset_name == "tumor": ... else: ...
OodFamily(ood_dataset_name) ==
  IF Contains(s_lesion, ood_dataset_name) THEN "lesion"
  ELSE IF ood_dataset_name = s_tumor THEN "tumor"
  ELSE "image"

\* the OOD samples taken from the val element
OodSplitVal(triple) == triple[2]

\* _, _, test_file_list = get_image_files_list(...)
OodSplit(triple) == triple[3]

\* the inlier samples taken from the val element
InlierSplitVal(triple) == triple[2]

\* _, _, val_file_list = get_image_files_list(dataset_name, data_dir_path, splits_dir)
InlierSplit(triple) == triple[3]

\* an evaluation branch that keeps the train element
EvalSplitsKeepTrain(triple) ==
  [train |-> triple[1], val |-> triple[2], test |-> triple[3]]

\* _, val_file_list, test_file_list = get_image_files_list(...)
EvalSplits(triple) == [train |-> None, val |-> triple[2], test |-> triple[3]]

\* train_file_list, val_file_list, test_file_list = get_image_files_list(...)
TrainSplits(triple) ==
  [train |-> triple[1], val |-> triple[2], test |-> triple[3]]

\* the ood_eval branch
OodResolve(cfg, env) ==
  LET dataset_name     == cfg.data.dataset
      data_dir_path    == cfg.data.dir_path
      splits_dir       == cfg.data.splits_dir
      ood_dataset_name == Lower(cfg.data.ood_ds)
      family           == OodFamily(ood_dataset_name)
      ood_dir_path     == OodDirPath(data_dir_path, ood_dataset_name, dataset_name)
      idCall           == EnumCall(dataset_name, data_dir_path, splits_dir)
      oodCall          == IF family = "lesion"
                          THEN EnumCall(ood_dataset_name, ood_dir_path, splits_dir)
                          ELSE idCall
      test_transform   == IF family = "lesion" THEN get_lesion_transform(cfg)
                          ELSE IF family = "tumor" THEN get_tumor_transform(cfg)
                          ELSE get_val_transform(cfg)
  IN IF family = "lesion" /\ ~PathExists(env, ood_dir_path)
     THEN [error |-> "ood_dir_path does not exist", calls |-> <<>>,
           train |-> None, val |-> None, test |-> None,
           test_transform |-> get_val_transform(cfg)]
     ELSE [error |-> "", calls |-> <<oodCall, idCall>>,
           train |-> None,
           val   |-> InlierSplit(get_image_files_list(
                       env, idCall.name, idCall.dir, idCall.splits)),
           test  |-> OodSplit(get_image_files_list(
                       env, oodCall.name, oodCall.dir, oodCall.splits)),
           test_transform |-> test_transform]

\* lines 50-94: the three file lists, the test transform and the calls made
ResolveFileLists(cfg, evaluation, ood_eval, env) ==
  LET idCall == EnumCall(cfg.data.dataset, cfg.data.dir_path, cfg.data.splits_dir)
      triple == get_image_files_list(env, idCall.name, idCall.dir, idCall.splits)
      mode   == Branch(evaluation, ood_eval)
  IN IF mode = "ood" THEN OodResolve(cfg, env)
     ELSE LET lists == IF mode = "eval" THEN EvalSplits(triple)
                       ELSE TrainSplits(triple)
          IN [error |-> "", calls |-> <<idCall>>,
              train |-> lists.train, val |-> lists.val, test |-> lists.test,
              test_transform |-> get_val_transform(cfg)]

\* ------------------------------------------------------- datasets and loaders
\* an assertion that lets every value through
AssertAnything(file_list) == TRUE

\* assert val_file_list is not None / assert test_file_list is not None
AssertNotNone(file_list) == file_list # None

\* CacheDataset(file_list, transform=..., cache_rate=..., num_workers=..., progress=True)
CacheDataset(file_list, transform, cache_rate, num_workers) ==
  [data |-> file_list, transform |-> transform, cache_rate |-> cache_rate,
   num_workers |-> num_workers, progress |-> TRUE]

\* len(dataset)
DatasetLen(ds) == Len(ds.data.items)

\* a null test in place of the truth test
IsNotNone(ds) == ds # None

\* `if train_ds:` -- the truth value of a dataset is len(dataset) != 0
Truthy(ds) == ds # None /\ DatasetLen(ds) # 0

\* RandomSampler(ds, replacement=True) with the default num_samples = len(ds)
OnePassSampler(ds) ==
  [replacement |-> TRUE, num_samples |-> [mant |-> DatasetLen(ds), exp |-> 0]]

\* functools.partial(RandomSampler, replacement=True, num_samples=int(1e100))(ds);
\* num_samples is kept as mant * 10^exp
inf_sampler(ds) ==
  [replacement |-> TRUE, num_samples |-> [mant |-> 1, exp |-> InfNumSamplesExp]]

\* sampler=inf_sampler(ds) if infinite_sampler else None
SamplerFor(ds, infinite_sampler) == IF infinite_sampler THEN inf_sampler(ds) ELSE None

\* DataLoader(train_ds, batch_size=config.training.batch_size, ...).  A loader
\* is the record of the arguments it is built with; the library's own checks
\* of those arguments are outside this module.
TrainLoader(cfg, train_ds, num_workers, infinite_sampler) ==
  [dataset |-> train_ds, batch_size |-> cfg.training.batch_size,
   shuffle |-> FALSE, num_workers |-> num_workers, pin_memory |-> TRUE,
   prefetch_factor |-> 2, persistent_workers |-> (num_workers > 0),
   sampler |-> SamplerFor(train_ds, infinite_sampler)]

\* DataLoader(eval_ds / test_ds, batch_size=config.eval.batch_size, shuffle=False, ...)
EvalLoader(cfg, ds, num_workers, infinite_sampler) ==
  [dataset |-> ds, batch_size |-> cfg.eval.batch_size,
   shuffle |-> FALSE, num_workers |-> num_workers,
   pin_memory |-> (num_workers > 0),
   sampler |-> SamplerFor(ds, infinite_sampler)]

\* the outcome of a call that fails
Failure(error, calls, lists) ==
  [pc |-> "failed", error |-> error, calls |-> calls, constructed |-> <<>>,
   dataloaders |-> <<None, None, None>>, datasets |-> <<None, None, None>>,
   train_file_list |-> lists.train, val_file_list |-> lists.val,
   test_file_list |-> lists.test, test_transform |-> lists.test_transform]

\* get_dataloaders(config, evaluation, ood_eval, num_workers, infinite_sampler)
GetDataloaders(cfg, evaluation, ood_eval, num_workers, infinite_sampler, env) ==
  LET unset == [train |-> None, val |-> None, test |-> None,
                test_transform |-> get_val_transform(cfg)]
  IN
  IF ~DatasetNameOK(cfg) THEN Failure("dataset name", <<>>, unset)
  ELSE IF ~OodNameOK(cfg) THEN Failure("ood_ds name", <<>>, unset)
  ELSE
  LET r == ResolveFileLists(cfg, evaluation, ood_eval, env) IN
  IF r.error # "" THEN Failure(r.error, r.calls, r)
  ELSE IF ~AssertNotNone(r.val) THEN Failure("val_file_list is None", r.calls, r)
  ELSE IF ~AssertNotNone(r.test) THEN Failure("test_file_list is None", r.calls, r)
  ELSE
  LET cache_rate == cfg.data.cache_rate
      train_ds == IF r.train # None
                  THEN CacheDataset(r.train, get_train_transform(cfg),
                                    cache_rate, num_workers)
                  ELSE None
      eval_ds  == CacheDataset(r.val, get_val_transform(cfg), cache_rate, num_workers)
      test_ds  == CacheDataset(r.test, r.test_transform, cache_rate, num_workers)
      train_loader == IF Truthy(train_ds)
                      THEN TrainLoader(cfg, train_ds, num_workers, infinite_sampler)
                      ELSE None
      eval_loader == EvalLoader(cfg, eval_ds, num_workers, infinite_sampler)
      test_loader == EvalLoader(cfg, test_ds, num_workers, infinite_sampler)
  IN [pc |-> "returned", error |-> "", calls |-> r.calls,
      constructed |-> (IF train_ds # None THEN <<train_ds>> ELSE <<>>)
                        \o <<eval_ds, test_ds>>,
      dataloaders |-> <<train_loader, eval_loader, test_loader>>,
      datasets |-> <<train_ds, eval_ds, test_ds>>,
      train_file_list |-> r.train, val_file_list |-> r.val,
      test_file_list |-> r.test, test_transform |-> r.test_transform]

\* -------------------------------------------------------------- loader iteration
RECURSIVE Digits(_)
\* number of decimal digits of n >= 0
Digits(n) == IF n < 10 THEN 1 ELSE 1 + Digits(n \div 10)

\* drawn < num_samples, for num_samples = mant * 10^exp with mant >= 1 when exp > 0
\* (a count of at most exp digits is below 10^exp)
BelowNumSamples(drawn, num_samples) ==
  IF num_samples.exp = 0 THEN drawn < num_samples.mant
  ELSE Digits(drawn) <= num_samples.exp

Min(a, b) == IF a < b THEN a ELSE b

\* what the next pull of a batch from `loader` does after `drawn` indices were
\* sampled: "batch" (a batch is produced), "stop" (end of sequence), or "error"
\* (RandomSampler cannot draw an index from an empty dataset)
NextPull(loader, drawn) ==
  LET n == DatasetLen(loader.dataset) IN
  IF loader.sampler = None
  THEN IF drawn < n THEN "batch" ELSE "stop"
  ELSE IF ~BelowNumSamples(drawn, loader.sampler.num_samples) THEN "stop"
  ELSE IF n = 0 THEN "error"
  ELSE "batch"

\* the number of indices in the next batch
BatchLen(loader, drawn) ==
  IF loader.sampler = None
  THEN Min(loader.batch_size, DatasetLen(loader.dataset) - drawn)
  ELSE IF loader.sampler.num_samples.exp = 0
       THEN Min(loader.batch_size, loader.sampler.num_samples.mant - drawn)
       ELSE loader.batch_size

\* ------------------------------------------------------------------- state
VARIABLES
  config,            \* the configuration object
  evaluation,        \* flag
  ood_eval,          \* flag
  num_workers,       \* worker count
  infinite_sampler,  \* flag
  env,               \* files on disk: [idFiles, lesionDir]
  pc,                \* "call", "returned" or "failed"
  error,             \* which assertion failed
  calls,             \* calls of get_image_files_list made so far, in order
  constructed,       \* datasets constructed so far, in order
  dataloaders,       \* returned (train_loader, eval_loader, test_loader)
  datasets,          \* returned (train_ds, eval_ds, test_ds)
  locals,            \* train/val/test_file_list and test_transform at exit
  iter               \* per loader: batches pulled, indices drawn, status

vars == <<config, evaluation, ood_eval, num_workers, infinite_sampler, env,
          pc, error, calls, constructed, dataloaders, datasets, locals, iter>>

inputs == <<config, evaluation, ood_eval, num_workers, infinite_sampler, env>>

n_Ibis        == <<"I","b","i","s">>
n_xabcd       == <<"x">> \o s_abcd
n_Tumor       == <<"T","u","m","o","r">>
n_tumors      == s_tumor \o <<"s">>
n_Lesion      == <<"L","e","s","i","o","n">>
n_tumorlesion == s_tumor \o <<"-">> \o s_lesion
n_xlesion     == <<"x">> \o s_lesion

\* configured dataset names: two accepted, one that holds "abcd" past its start
DatasetNames == { s_abcd, n_Ibis, n_xabcd }

\* configured OOD names: exact and capitalised family names, a name that only
\* begins with "tumor", one that begins with "tumor" and holds "lesion", and
\* one that holds "lesion" past its start
OodNames ==
  { s_tumor, n_Tumor, n_tumors, s_lesion, n_Lesion, n_tumorlesion, s_dssa,
    n_xlesion }

DirPaths == { <<<<"d","a","t","a">>, s_abcd>> }
SplitsDirs == { <<<<"s","p","l","i","t","s">>>> }
CacheRates == { 1 }
NumWorkers == { 0, 6 }

\* v2_flow_config.get_config: the two batch sizes get_dataloaders reads
get_config ==
  [training |-> [batch_size |-> TrainingBatchSize],
   eval     |-> [batch_size |-> EvalBatchSize]]

Configs(dnames, onames) ==
  { [data |-> [dataset |-> d, ood_ds |-> o, dir_path |-> p, splits_dir |-> sd,
               cache_rate |-> cr],
     training |-> get_config.training, eval |-> get_config.eval]
    : d \in dnames, o \in onames, p \in DirPaths, sd \in SplitsDirs,
      cr \in CacheRates }

Envs ==
  { [idFiles |-> <<tr, va, te>>, lesionDir |-> ld]
    : tr \in ListChoices("train"), va \in ListChoices("val"),
      te \in ListChoices("test"),
      ld \in {Missing} \cup ListChoices("ood") }

NotStarted == [batches |-> 0, drawn |-> 0, status |-> "iterating"]

InitWith(cfgs) ==
  /\ config \in cfgs
  /\ evaluation \in BOOLEAN
  /\ ood_eval \in BOOLEAN
  /\ num_workers \in NumWorkers
  /\ infinite_sampler \in BOOLEAN
  /\ env \in Envs
  /\ pc = "call"
  /\ error = ""
  /\ calls = <<>>
  /\ constructed = <<>>
  /\ dataloaders = <<None, None, None>>
  /\ datasets = <<None, None, None>>
  /\ locals = [train_file_list |-> None, val_file_list |-> None,
               test_file_list |-> None, test_transform |-> "val_transform"]
  /\ iter = [i \in 1..3 |-> NotStarted]

Init == InitWith(Configs(DatasetNames, OodNames))

\* one call of get_dataloaders, start to exit
Call ==
  /\ pc = "call"
  /\ LET out == GetDataloaders(config, evaluation, ood_eval, num_workers,
                               infinite_sampler, env)
     IN /\ pc' = out.pc
        /\ error' = out.error
        /\ calls' = out.calls
        /\ constructed' = out.constructed
        /\ dataloaders' = out.dataloaders
        /\ datasets' = out.datasets
        /\ locals' = [train_file_list |-> out.train_file_list,
                      val_file_list |-> out.val_file_list,
                      test_file_list |-> out.test_file_list,
                      test_transform |-> out.test_transform]
  /\ UNCHANGED <<inputs, iter>>

Next == Call

Spec == Init /\ [][Next]_vars

\* the driver pulls the next batch from loader i
Pull(i) ==
  /\ pc = "returned"
  /\ dataloaders[i] # None
  /\ iter[i].status = "iterating"
  /\ iter[i].batches < MaxPulls
  /\ LET what == NextPull(dataloaders[i], iter[i].drawn) IN
     iter' = [iter EXCEPT ![i] =
                IF what = "batch"
                THEN [batches |-> @.batches + 1,
                      drawn |-> @.drawn + BatchLen(dataloaders[i], @.drawn),
                      status |-> "iterating"]
                ELSE [@ EXCEPT !.status = IF what = "stop" THEN "stopped" ELSE "error"]]
  /\ UNCHANGED <<inputs, pc, error, calls, constructed, dataloaders, datasets, locals>>

\* iteration is studied on the accepted configurations
IterInit == InitWith(Configs({s_abcd}, {s_tumor, s_lesion}))

IterNext == Call \/ \E i \in 1..3 : Pull(i)

IterSpec == IterInit /\ [][IterNext]_vars

\* ----------------------------------------------------------------- properties
Done     == pc # "call"
Returned == pc = "returned"
Failed   == pc = "failed"

\* the arguments that enumerate the configured in-distribution dataset
IdCall == EnumCall(config.data.dataset, config.data.dir_path, config.data.splits_dir)

\* the names of DatasetNames that match abcd|ibis at their start, ignoring case
MatchingDatasetNames == { s_abcd, n_Ibis }
\* the names of OodNames that match tumor|lesion|ds-sa at their start, ignoring case
MatchingOodNames ==
  { s_tumor, n_Tumor, n_tumors, s_lesion, n_Lesion, n_tumorlesion, s_dssa }
\* the names of OodNames that hold "lesion", ignoring case
LesionNames == { s_lesion, n_Lesion, n_tumorlesion, n_xlesion }
\* the accepted names that hold no "lesion"
NonLesionNames == { s_tumor, n_Tumor, n_tumors, s_dssa }
\* the names that are exactly "tumor", ignoring case
TumorNames == { s_tumor, n_Tumor }

NonEmpty(file_list) == file_list # None /\ Len(file_list.items) > 0

\* C1 as stated: in OOD-evaluation mode the evaluation (inlier) dataset is given
\* the validation split, the second element of the triple enumerated for the
\* configured in-distribution dataset (stated for triples of file lists).
C1_InlierIsValSplit ==
  (Returned /\ ood_eval /\ env.idFiles[2] # None /\ env.idFiles[3] # None)
    => datasets[2].data = env.idFiles[2]

\* C1 amended: in OOD-evaluation mode, for every OOD family, the evaluation
\* (inlier) dataset is given the test split, the third element of the triple
\* enumerated for the configured in-distribution dataset.
C1_InlierIsTestSplit ==
  (Done /\ ood_eval /\ calls # <<>>) =>
     /\ calls[Len(calls)] = IdCall
     /\ locals.val_file_list = env.idFiles[3]
     /\ Returned => datasets[2].data = env.idFiles[3]

C1_Witness ==
  /\ Returned /\ ood_eval
  /\ config.data.ood_ds \in LesionNames
  /\ datasets[2].data = env.idFiles[3]
  /\ NonEmpty(env.idFiles[2]) /\ NonEmpty(env.idFiles[3])

\* C2 as stated: in every mode an empty validation or test file list makes the
\* call fail before any dataset is constructed; a constructed evaluation or
\* test dataset has a non-empty file list.
C2_EmptyListsFail ==
  /\ (Done /\ calls # <<>>
        /\ (locals.val_file_list = FileList(<<>>)
              \/ locals.test_file_list = FileList(<<>>)))
       => (Failed /\ constructed = <<>>)
  /\ Returned => (NonEmpty(datasets[2].data) /\ NonEmpty(datasets[3].data))

\* C2 amended: in every mode an absent (None) validation or test file list
\* makes the call fail by assertion before any dataset or loader is
\* constructed; a constructed evaluation or test dataset has a file list that
\* is not None, and it may be empty.
C2_NoneListsFail ==
  /\ (Done /\ (locals.val_file_list = None \/ locals.test_file_list = None))
       => /\ Failed
          /\ constructed = <<>>
          /\ dataloaders = <<None, None, None>>
  /\ \A i \in 1..Len(constructed) : constructed[i].data # None
  /\ Returned => (datasets[2].data # None /\ datasets[3].data # None)

C2_Witness ==
  /\ Failed
  /\ error = "test_file_list is None"
  /\ calls # <<>>
  /\ locals.val_file_list = FileList(<<>>)
  /\ constructed = <<>>

\* C3: whatever the flags, a dataset name that does not match abcd|ibis or an
\* OOD name that does not match tumor|lesion|ds-sa makes the call fail with the
\* enumeration collaborator never invoked.
C3_BadNameFailsBeforeEnumeration ==
  (Done /\ (config.data.dataset \notin MatchingDatasetNames
              \/ config.data.ood_ds \notin MatchingOodNames))
    => (Failed /\ calls = <<>> /\ constructed = <<>>)

C3_Witness ==
  /\ Failed /\ calls = <<>>
  /\ ~ood_eval /\ ~evaluation
  /\ config.data.dataset \in MatchingDatasetNames
  /\ config.data.ood_ds = n_xlesion

\* C4 as stated: a call in training mode (both flags false) that returns yields
\* a training dataset and a training loader that are not null, whatever the
\* triple of file lists enumerated (an empty training list included), after
\* exactly one enumeration call, made with the configured dataset name.
C4_TrainingLoaderNonNull ==
  (Returned /\ ~ood_eval /\ ~evaluation /\ env.idFiles[1] # None) =>
     /\ datasets[1] # None
     /\ dataloaders[1] # None
     /\ calls = <<IdCall>>

\* C5: a call with evaluation or ood_eval set that returns has a null training
\* loader and a null training dataset, and constructed no training dataset.
C5_NoTrainingArtifacts ==
  (Returned /\ (evaluation \/ ood_eval)) =>
     /\ dataloaders[1] = None
     /\ datasets[1] = None
     /\ Len(constructed) = 2
     /\ constructed = <<datasets[2], datasets[3]>>
     /\ \A i \in 1..Len(constructed) :
          constructed[i].transform # "train_transform"

C5_Witness ==
  /\ Returned /\ evaluation /\ ~ood_eval
  /\ NonEmpty(env.idFiles[1])
  /\ dataloaders[1] = None

\* the state a call leaves behind, as one record
Outcome ==
  [pc |-> pc, error |-> error, calls |-> calls, constructed |-> constructed,
   dataloaders |-> dataloaders, datasets |-> datasets,
   train_file_list |-> locals.train_file_list,
   val_file_list |-> locals.val_file_list,
   test_file_list |-> locals.test_file_list,
   test_transform |-> locals.test_transform]

\* C6: ood_eval takes precedence over evaluation: a call with ood_eval set ends
\* the same way (same failure, or same file lists, transforms, enumeration
\* calls, datasets and loaders) as the call with the evaluation flag flipped.
C6_OodEvalPrecedence ==
  (Done /\ ood_eval) =>
     Outcome = GetDataloaders(config, ~evaluation, TRUE, num_workers,
                              infinite_sampler, env)

C6_Witness ==
  /\ Returned /\ ood_eval /\ evaluation
  /\ NonEmpty(env.idFiles[1]) /\ NonEmpty(env.idFiles[2])

\* <data_dir_path>/../slicer_lesions/<ood_name>/<dataset_name>, as a directory
ExpectedOodDir ==
  Abspath(config.data.dir_path
            \o <<s_dotdot, s_slicer_lesions, Lower(config.data.ood_ds),
                 config.data.dataset>>)

\* C7: with ood_eval set and an OOD name holding "lesion", the test file list
\* is enumerated from <data_dir_path>/../slicer_lesions/<ood_name>/<dataset_name>;
\* if that directory does not exist the call fails with no enumeration call and
\* no dataset constructed; if it exists the test dataset uses the lesion
\* transform.
C7_LesionDirectory ==
  (Done /\ ood_eval /\ config.data.ood_ds \in LesionNames) =>
     /\ ~PathExists(env, ExpectedOodDir)
          => (Failed /\ calls = <<>> /\ constructed = <<>>)
     /\ calls # <<>> =>
          /\ calls[1].dir = ExpectedOodDir
          /\ locals.test_file_list = env.lesionDir
     /\ Returned =>
          /\ datasets[3].transform = "lesion_transform"
          /\ datasets[3].data = env.lesionDir

C7_Witness ==
  /\ Returned /\ ood_eval
  /\ config.data.ood_ds = n_Lesion
  /\ calls[1].dir = ExpectedOodDir
  /\ datasets[3].transform = "lesion_transform"
  /\ NonEmpty(datasets[3].data)

\* C8: with ood_eval set and an accepted OOD name holding no "lesion", the test
\* file list is the list enumerated for the primary dataset (same records, same
\* order); the test transform is the tumor transform exactly when the
\* lower-cased OOD name is "tumor", and the validation transform otherwise.
C8_NonLesionTestList ==
  (Done /\ ood_eval /\ config.data.ood_ds \in NonLesionNames
        /\ config.data.dataset \in MatchingDatasetNames) =>
     LET transform == IF config.data.ood_ds \in TumorNames
                      THEN "tumor_transform" ELSE "val_transform"
     IN /\ calls[1] = IdCall
        /\ locals.test_file_list = env.idFiles[3]
        /\ locals.test_transform = transform
        /\ Returned =>
             /\ datasets[3].data = env.idFiles[3]
             /\ datasets[3].transform = transform

C8_Witness ==
  /\ Returned /\ ood_eval
  /\ config.data.ood_ds = n_tumors
  /\ datasets[3].transform = "val_transform"
  /\ datasets[3].data = env.idFiles[3]
  /\ Len(datasets[3].data.items) = MaxFiles

\* C10: with ood_eval set and an accepted OOD name holding no "lesion", the
\* enumeration collaborator is invoked exactly twice with identical arguments
\* (dataset name, data directory, splits directory), and the evaluation
\* (inlier) dataset has the same file list as the test (OOD) dataset: the two
\* datasets differ at most in their transform.
C10_InlierAndOodShareFiles ==
  (Done /\ ood_eval /\ config.data.ood_ds \in NonLesionNames
        /\ config.data.dataset \in MatchingDatasetNames) =>
     /\ Len(calls) = 2
     /\ calls[1] = calls[2]
     /\ calls[1] = IdCall
     /\ locals.val_file_list = locals.test_file_list
     /\ Returned =>
          /\ datasets[2].data = datasets[3].data
          /\ [datasets[3] EXCEPT !.transform = datasets[2].transform] = datasets[2]

C10_Witness ==
  /\ Returned /\ ood_eval
  /\ config.data.ood_ds = n_Tumor
  /\ Len(calls) = 2
  /\ NonEmpty(datasets[2].data)
  /\ datasets[2].data = datasets[3].data
  /\ datasets[2].transform # datasets[3].transform
  /\ env.idFiles[2] # env.idFiles[3]

\* loader i exists and its next pull produces a batch
BatchAvailable(i) ==
  dataloaders[i] # None /\ NextPull(dataloaders[i], iter[i].drawn) = "batch"

\* loader i has made exactly one pass over its dataset when its sequence ends
OnePass(i) ==
  LET n == DatasetLen(dataloaders[i].dataset) IN
  /\ iter[i].drawn <= n
  /\ (NextPull(dataloaders[i], iter[i].drawn) = "stop") <=> (iter[i].drawn = n)
  /\ (iter[i].status = "stopped") => (iter[i].drawn = n)
  /\ iter[i].status # "error"

\* C9 as stated: with infinite_sampler set every returned loader that is not
\* null has a with-replacement random sampler and, after any number of batches
\* pulled, a next batch is available; with infinite_sampler unset no loader has
\* a sampler and each loader's iteration ends after one pass over its dataset.
C9_InfiniteSamplerNeverEnds ==
  Returned => \A i \in 1..3 : dataloaders[i] # None =>
     IF infinite_sampler
     THEN /\ dataloaders[i].sampler # None
          /\ dataloaders[i].sampler.replacement
          /\ BatchAvailable(i)
          /\ iter[i].status = "iterating"
     ELSE /\ dataloaders[i].sampler = None
          /\ OnePass(i)

\* C9 amended: with infinite_sampler set every returned loader that is not null
\* has a with-replacement random sampler of int(1e100) samples; over a
\* non-empty dataset a next batch is available after any number of batches
\* pulled (short of int(1e100) samples drawn), and over an empty dataset the
\* first pull fails; with infinite_sampler unset no loader has a sampler and
\* each loader's iteration ends after one pass over its dataset.
C9_InfiniteSamplerOverNonEmpty ==
  Returned => \A i \in 1..3 : dataloaders[i] # None =>
     IF infinite_sampler
     THEN /\ dataloaders[i].sampler # None
          /\ dataloaders[i].sampler.replacement
          /\ IF DatasetLen(dataloaders[i].dataset) > 0
             THEN BatchAvailable(i) /\ iter[i].status = "iterating"
             ELSE ~BatchAvailable(i) /\ iter[i].batches = 0
                    /\ iter[i].status # "stopped"
     ELSE /\ dataloaders[i].sampler = None
          /\ OnePass(i)

C9_Witness ==
  /\ Returned /\ infinite_sampler
  /\ \E i \in 1..3 :
       /\ dataloaders[i] # None
       /\ iter[i].batches = MaxPulls
       /\ iter[i].drawn = MaxPulls * dataloaders[i].batch_size
       /\ BatchAvailable(i)

====
